---- MODULE Spec2Model ----
(***************************************************************************)
(* Rate tracking and request routing of cerebras-code-mcp:                 *)
(*   SlidingWindow / FixedWindow   time-window counters                    *)
(*   RateTracker                   one counter per owned quota period      *)
(*   RateLimitedProvider           admission control around a raw executor *)
(*   RoutingStrategy               cost / performance / roundrobin /       *)
(*                                 balanced selection                      *)
(*   ProviderPool                  selection plus single-hop failover      *)
(* Time is Date.now() in milliseconds.                                     *)
(***************************************************************************)
EXTENDS Integers, Sequences, FiniteSets, TLC

VARIABLES now, cfg, trackers, lastIndex, calls, last, rawLog, last429, ncalls, nticks,
          upstreamFailed, ctr, events, seen, client

vars == <<now, cfg, trackers, lastIndex, calls, last, rawLog, last429, ncalls, nticks,
          upstreamFailed, ctr, events, seen, client>>

(* The pool with its providers and callers *)
poolVars == <<cfg, trackers, lastIndex, calls, last, rawLog, last429, ncalls, upstreamFailed>>

(* A counter or tracker used on its own, the history of its increments and *)
(* the result of the last operation on it                                  *)
counterVars == <<ctr, events, seen>>

(* The module-wide config object and the callCerebras runs of the API      *)
(* clients that override it                                                *)
clientVars == <<client>>

----------------------------------------------------------------------------
(* Bounds of the model *)

MaxCalls == 4

MaxTicks == 2

StartHour == 23

NumSlots == 2

MaxIncrements == 3

MaxCounterTicks == 5

(* Program constants *)

MsPerSecond == 1000

MinuteWindowSeconds == 60

MinuteBucketSeconds == 1

HourWindowSeconds == 3600

HourBucketSeconds == 60

DayWindowSeconds == 86400

DayMs == 86400000

(* The offset between standard and daylight-saving time *)
DstShiftMs == 3600000

Periods == <<"minute", "hour", "day">>

Models == {"modelA"}

(* Clock advances the environment may make between two steps (ms). *)
TickSteps == {59000, 3541000}

Min(a, b) == IF a < b THEN a ELSE b

Max(a, b) == IF a > b THEN a ELSE b

CeilDiv(a, b) == (a + b - 1) \div b

----------------------------------------------------------------------------
(* SlidingWindow *)

(* variant: the bucket count is rounded down *)
NewSlidingWindowFloor(windowSeconds, bucketSeconds, t) ==
  [kind |-> "sliding",
   windowSize |-> windowSeconds,
   bucketSize |-> bucketSeconds,
   bucketCount |-> windowSeconds \div bucketSeconds,
   buckets |-> [i \in {} |-> 0],
   currentIndex |-> 0,
   lastRotation |-> t]

(* The buckets array is kept as the function from the indices that hold a  *)
(* non-zero count to that count; every other index of 0..bucketCount-1     *)
(* holds 0.                                                                *)
NewSlidingWindow(windowSeconds, bucketSeconds, t) ==
  [kind |-> "sliding",
   windowSize |-> windowSeconds,
   bucketSize |-> bucketSeconds,
   bucketCount |-> CeilDiv(windowSeconds, bucketSeconds),
   buckets |-> [i \in {} |-> 0],
   currentIndex |-> 0,
   lastRotation |-> t]

BucketAt(w, i) == IF i \in DOMAIN w.buckets THEN w.buckets[i] ELSE 0

(* variant: rotate() advances the index without zeroing the buckets *)
SWRotateNoClear(w, t) ==
  LET bucketsToRotate == ((t - w.lastRotation) \div MsPerSecond) \div w.bucketSize
  IN IF bucketsToRotate > 0
     THEN [w EXCEPT
             !.currentIndex = (w.currentIndex + Min(bucketsToRotate, w.bucketCount))
                                % w.bucketCount,
             !.lastRotation = w.lastRotation + bucketsToRotate * w.bucketSize * MsPerSecond]
     ELSE w

(* variant: rotate() moves lastRotation to the time of the call *)
SWRotateToNow(w, t) ==
  LET elapsed == (t - w.lastRotation) \div MsPerSecond
      bucketsToRotate == elapsed \div w.bucketSize
      k == Min(bucketsToRotate, w.bucketCount)
  IN IF bucketsToRotate > 0
     THEN [w EXCEPT
             !.buckets = [i \in {j \in DOMAIN w.buckets :
                                   ((j - w.currentIndex - 1 + w.bucketCount) % w.bucketCount) >= k}
                            |-> w.buckets[i]],
             !.currentIndex = (w.currentIndex + k) % w.bucketCount,
             !.lastRotation = t]
     ELSE w

(* rotate(): index i is one of the k indices after currentIndex *)
SWRotate(w, t) ==
  LET elapsed == (t - w.lastRotation) \div MsPerSecond
      bucketsToRotate == elapsed \div w.bucketSize
      k == Min(bucketsToRotate, w.bucketCount)
  IN IF bucketsToRotate > 0
     THEN [w EXCEPT
             !.buckets = [i \in {j \in DOMAIN w.buckets :
                                   ((j - w.currentIndex - 1 + w.bucketCount) % w.bucketCount) >= k}
                            |-> w.buckets[i]],
             !.currentIndex = (w.currentIndex + k) % w.bucketCount,
             !.lastRotation = w.lastRotation + bucketsToRotate * w.bucketSize * MsPerSecond]
     ELSE w

RECURSIVE SumBuckets(_, _)
SumBuckets(b, idx) ==
  IF idx = {} THEN 0
  ELSE LET i == CHOOSE j \in idx : TRUE IN b[i] + SumBuckets(b, idx \ {i})

SWIncrement(w, t) ==
  LET r == SWRotate(w, t)
  IN [r EXCEPT !.buckets = (r.currentIndex :> (BucketAt(r, r.currentIndex) + 1)) @@ r.buckets]

SWGetCount(w, t) == LET r == SWRotate(w, t) IN SumBuckets(r.buckets, DOMAIN r.buckets)

(* variant: reset() leaves the buckets as they are *)
SWResetKeepBuckets(w, t) == [w EXCEPT !.currentIndex = 0, !.lastRotation = t]

SWReset(w, t) ==
  [w EXCEPT !.buckets = [i \in {} |-> 0], !.currentIndex = 0, !.lastRotation = t]

(* rotate() at time t zeroes bucket j *)
RotatedOut(w, t, j) ==
  ((j - w.currentIndex - 1 + w.bucketCount) % w.bucketCount)
    < Min(((t - w.lastRotation) \div MsPerSecond) \div w.bucketSize, w.bucketCount)

----------------------------------------------------------------------------
(* FixedWindow.  date.setHours(0, 0, 0, 0) is the midnight of the local     *)
(* day.  The local days of the model: day 0 lasts 24 h, day 1 lasts 23 h   *)
(* (the clocks go forward), day 2 lasts 25 h (the clocks go back), the     *)
(* later days 24 h.                                                        *)
LocalMidnights == {0, DayMs, 2 * DayMs - DstShiftMs, 3 * DayMs, 4 * DayMs, 5 * DayMs}

LastMidnight(timestamp) ==
  CHOOSE d \in LocalMidnights :
    d <= timestamp /\ \A d2 \in LocalMidnights : d2 <= timestamp => d2 <= d

alignToDay(windowDuration, timestamp) ==
  IF windowDuration = DayMs THEN LastMidnight(timestamp) ELSE timestamp

NewFixedWindow(windowSeconds, t) ==
  [kind |-> "fixed",
   windowDuration |-> windowSeconds * MsPerSecond,
   count |-> 0,
   windowStart |-> alignToDay(windowSeconds * MsPerSecond, t)]

(* variant: the expired window is re-aligned but keeps its count *)
resetIfExpiredKeepCount(w, t) ==
  IF t >= w.windowStart + w.windowDuration
  THEN [w EXCEPT !.windowStart = alignToDay(w.windowDuration, t)]
  ELSE w

resetIfExpired(w, t) ==
  IF t >= w.windowStart + w.windowDuration
  THEN [w EXCEPT !.count = 0, !.windowStart = alignToDay(w.windowDuration, t)]
  ELSE w

FWIncrement(w, t) == LET r == resetIfExpired(w, t) IN [r EXCEPT !.count = @ + 1]

FWGetCount(w, t) == resetIfExpired(w, t).count

FWReset(w, t) == [w EXCEPT !.count = 0, !.windowStart = alignToDay(w.windowDuration, t)]

----------------------------------------------------------------------------
(* Either counter variant, as RateTracker uses them *)

WRefresh(w, t) == IF w.kind = "sliding" THEN SWRotate(w, t) ELSE resetIfExpired(w, t)

WIncrement(w, t) == IF w.kind = "sliding" THEN SWIncrement(w, t) ELSE FWIncrement(w, t)

WGetCount(w, t) == IF w.kind = "sliding" THEN SWGetCount(w, t) ELSE FWGetCount(w, t)

WReset(w, t) == IF w.kind = "sliding" THEN SWReset(w, t) ELSE FWReset(w, t)


(* variant: a window at its limit still admits *)
WCanIncrementInclusive(w, limit, t) == WGetCount(w, t) <= limit

WCanIncrement(w, limit, t) == WGetCount(w, t) < limit

----------------------------------------------------------------------------
(* RateTracker.  A limit set is a function from some of the period names   *)
(* to numbers; a period that is missing or 0 is falsy in the constructor.  *)

HasLimit(limits, per) == per \in DOMAIN limits /\ limits[per] # 0

NewWindow(per, t) ==
  IF per = "minute" THEN NewSlidingWindow(MinuteWindowSeconds, MinuteBucketSeconds, t)
  ELSE IF per = "hour" THEN NewSlidingWindow(HourWindowSeconds, HourBucketSeconds, t)
  ELSE NewFixedWindow(DayWindowSeconds, t)

NewRateTracker(limits, t) ==
  [limits |-> limits,
   windows |-> [per \in {q \in {"minute", "hour", "day"} : HasLimit(limits, q)} |->
                  NewWindow(per, t)]]

Owned(tr) == DOMAIN tr.windows

(* Object.entries(this.windows): insertion order minute, hour, day *)
OwnedSeq(tr) == SelectSeq(Periods, LAMBDA per : per \in Owned(tr))

recordRequest(tr, t) ==
  [tr EXCEPT !.windows = [per \in Owned(tr) |-> WIncrement(tr.windows[per], t)]]

(* canHandle: visits the windows in order and returns at the first one at  *)
(* its limit; every visited window has been rotated.                       *)
RECURSIVE CanHandleFrom(_, _, _)
CanHandleFrom(tr, pers, t) ==
  IF pers = <<>> THEN [val |-> TRUE, tr |-> tr]
  ELSE LET per == Head(pers)
           w == WRefresh(tr.windows[per], t)
           tr2 == [tr EXCEPT !.windows[per] = w]
       IN IF ~WCanIncrement(w, tr.limits[per], t)
          THEN [val |-> FALSE, tr |-> tr2]
          ELSE CanHandleFrom(tr2, Tail(pers), t)

TrackerCanHandle(tr, t) == CanHandleFrom(tr, OwnedSeq(tr), t)

TrackerReset(tr, t) ==
  [tr EXCEPT !.windows = [per \in Owned(tr) |-> WReset(tr.windows[per], t)]]

Refreshed(tr, t) ==
  [tr EXCEPT !.windows = [per \in Owned(tr) |-> WRefresh(tr.windows[per], t)]]

(* getBottleneck: first period with the strictly highest used/limit ratio, *)
(* "null" when no ratio is above 0.  Ratios are compared by cross          *)
(* multiplication (limits of the model are positive).                      *)
RECURSIVE BottleneckFrom(_, _, _, _, _, _)
BottleneckFrom(tr, pers, t, maxNum, maxDen, best) ==
  IF pers = <<>> THEN best
  ELSE LET per == Head(pers)
           used == WGetCount(tr.windows[per], t)
           lim == tr.limits[per]
       IN IF used * maxDen > maxNum * lim
          THEN BottleneckFrom(tr, Tail(pers), t, used, lim, per)
          ELSE BottleneckFrom(tr, Tail(pers), t, maxNum, maxDen, best)

(* variant: the first owned period with a request in it *)
getBottleneckFirstUsed(tr, t) ==
  IF \E i \in DOMAIN OwnedSeq(tr) : WGetCount(tr.windows[OwnedSeq(tr)[i]], t) > 0
  THEN OwnedSeq(tr)[CHOOSE i \in DOMAIN OwnedSeq(tr) :
                      /\ WGetCount(tr.windows[OwnedSeq(tr)[i]], t) > 0
                      /\ \A j \in 1..(i - 1) : WGetCount(tr.windows[OwnedSeq(tr)[j]], t) = 0]
  ELSE "null"

getBottleneck(tr, t) == BottleneckFrom(tr, OwnedSeq(tr), t, 0, 1, "null")

(* getAvailability()[per].used *)
Used(tr, per, t) == WGetCount(tr.windows[per], t)

RECURSIVE SumUsed(_, _, _)
SumUsed(tr, pers, t) ==
  IF pers = <<>> THEN 0 ELSE Used(tr, Head(pers), t) + SumUsed(tr, Tail(pers), t)

RECURSIVE SumLimit(_, _)
SumLimit(tr, pers) ==
  IF pers = <<>> THEN 0 ELSE tr.limits[Head(pers)] + SumLimit(tr, Tail(pers))

RECURSIVE RecordN(_, _, _)
RecordN(tr, n, t) == IF n <= 0 THEN tr ELSE RecordN(recordRequest(tr, t), n - 1, t)

----------------------------------------------------------------------------
(* Errors.  kind stands for the message text; who/what/serial are the      *)
(* parts of the message and the identity of the error object.              *)

Err(kind, who, what, serial) == [kind |-> kind, who |-> who, what |-> what, serial |-> serial]

NoErr == Err("none", 0, "", 0)

(* Messages the raw executor can fail with: one that contains '429', one   *)
(* that contains 'rate limit' but not '429', one without any marker.       *)
UpstreamKinds == {"Upstream429", "UpstreamRateLimitText", "UpstreamOther"}

StartsWithRateLimitExceeded(e) == e.kind = "RateLimitExceeded"

Includes429(e) == e.kind = "Upstream429"

IncludesRateLimitText(e) == e.kind = "UpstreamRateLimitText"


(* variant: every error is taken for a rate-limit error *)
isRateLimitAnyError(e) == e.kind # "none"

isRateLimit(e) ==
  StartsWithRateLimitExceeded(e) \/ Includes429(e) \/ IncludesRateLimitText(e)

----------------------------------------------------------------------------
(* RateLimitedProvider.  trs is the trackers map of every provider:        *)
(* trs[p] is a function from the models that have a tracker to trackers.   *)

Providers == 1..Len(cfg.providers)

AllProviders == [i \in 1..Len(cfg.providers) |-> i]

HasConfig(p, m) == m \in DOMAIN cfg.providers[p].modelConfigs

getTracker(p, m, trs, t) ==
  IF m \in DOMAIN trs[p] THEN [ok |-> TRUE, trs |-> trs]
  ELSE IF ~HasConfig(p, m) THEN [ok |-> FALSE, trs |-> trs]
  ELSE [ok |-> TRUE,
        trs |-> [trs EXCEPT ![p] =
                   (m :> NewRateTracker(cfg.providers[p].modelConfigs[m], t)) @@ trs[p]]]

(* variant: canHandle without the catch of NoConfigForModel answers true   *)
(* for a provider that has no quota entry                                  *)
ProviderCanHandleUnconfigured(p, m, trs, t) ==
  LET g == getTracker(p, m, trs, t)
  IN IF ~g.ok THEN [val |-> TRUE, trs |-> trs]
     ELSE LET c == TrackerCanHandle(g.trs[p][m], t)
          IN [val |-> c.val, trs |-> [g.trs EXCEPT ![p][m] = c.tr]]

ProviderCanHandle(p, m, trs, t) ==
  LET g == getTracker(p, m, trs, t)
  IN IF ~g.ok THEN [val |-> FALSE, trs |-> trs]
     ELSE LET c == TrackerCanHandle(g.trs[p][m], t)
          IN [val |-> c.val, trs |-> [g.trs EXCEPT ![p][m] = c.tr]]

(* getUtilization of a provider that has a tracker: totalUsed / totalLimit *)
(* as a fraction, 1 when totalLimit is 0.                                  *)
getUtilization(p, m, trs, t) ==
  LET tr == trs[p][m]
      totalUsed == SumUsed(tr, OwnedSeq(tr), t)
      totalLimit == SumLimit(tr, OwnedSeq(tr))
  IN IF totalLimit > 0 THEN [num |-> totalUsed, den |-> totalLimit]
     ELSE [num |-> 1, den |-> 1]

(* a.getUtilization(model) - b.getUtilization(model), up to a positive factor *)
Cross(ua, ub) == ua.num * ub.den - ub.num * ua.den

UtilDiff(a, b, m, trs, t) ==
  Cross(getUtilization(a, m, trs, t), getUtilization(b, m, trs, t))


(* variant: execute without the admission re-check *)
ExecBeginNoCheck(p, m, trs, t) ==
  LET g == getTracker(p, m, trs, t)
  IN IF ~g.ok
     THEN [admit |-> FALSE, trs |-> trs,
           err |-> Err("NoConfigForModel", p, m, 0)]
     ELSE [admit |-> TRUE, trs |-> g.trs, err |-> NoErr]

(* variant: the re-check of execute wants room for one more request than   *)
(* canHandle does                                                          *)
ExecBeginStrict(p, m, trs, t) ==
  LET g == getTracker(p, m, trs, t)
  IN IF ~g.ok
     THEN [admit |-> FALSE, trs |-> trs,
           err |-> Err("NoConfigForModel", p, m, 0)]
     ELSE LET c == TrackerCanHandle(g.trs[p][m], t)
          IN IF \E per \in Owned(c.tr) :
                  WGetCount(c.tr.windows[per], t) + 1 >= c.tr.limits[per]
             THEN [admit |-> FALSE,
                   trs |-> [g.trs EXCEPT ![p][m] = Refreshed(c.tr, t)],
                   err |-> Err("RateLimitExceeded", cfg.providers[p].keyId,
                               getBottleneck(c.tr, t), 0)]
             ELSE [admit |-> TRUE, trs |-> [g.trs EXCEPT ![p][m] = c.tr], err |-> NoErr]

(* The synchronous part of execute, up to the call of the raw executor. *)
ExecBegin(p, m, trs, t) ==
  LET g == getTracker(p, m, trs, t)
  IN IF ~g.ok
     THEN [admit |-> FALSE, trs |-> trs,
           err |-> Err("NoConfigForModel", p, m, 0)]
     ELSE LET c == TrackerCanHandle(g.trs[p][m], t)
          IN IF ~c.val
             THEN [admit |-> FALSE,
                   trs |-> [g.trs EXCEPT ![p][m] = Refreshed(c.tr, t)],
                   err |-> Err("RateLimitExceeded", cfg.providers[p].keyId,
                               getBottleneck(c.tr, t), 0)]
             ELSE [admit |-> TRUE, trs |-> [g.trs EXCEPT ![p][m] = c.tr], err |-> NoErr]

(* variant: a served request is recorded twice *)
ExecSuccessTwice(p, m, trs, t) ==
  [trs EXCEPT ![p][m] = recordRequest(recordRequest(@, t), t)]

(* The continuation of execute after the raw executor succeeded. *)
(* variant: a served request is recorded on every tracker of the provider *)
ExecSuccessAllModels(p, m, trs, t) ==
  [trs EXCEPT ![p] = [m2 \in DOMAIN trs[p] |-> recordRequest(trs[p][m2], t)]]

ExecSuccess(p, m, trs, t) == [trs EXCEPT ![p][m] = recordRequest(trs[p][m], t)]


(* variant: a request that failed upstream is recorded like a served one *)
ExecFailureRecordsFailure(p, m, e, trs, t) ==
  LET tr == Refreshed(trs[p][m], t)
  IN IF Includes429(e) /\ HasConfig(p, m)
     THEN IF "minute" \in Owned(tr)
          THEN [err |-> e,
                trs |-> [trs EXCEPT ![p][m] =
                           RecordN(tr, tr.limits["minute"] - Used(tr, "minute", t), t)]]
          ELSE [err |-> Err("TypeError", 0, "used", 0),
                trs |-> [trs EXCEPT ![p][m] = tr]]
     ELSE [err |-> e, trs |-> [trs EXCEPT ![p][m] = recordRequest(trs[p][m], t)]]

(* The catch block of execute: on '429' the tracker is filled up to the    *)
(* minute limit; getAvailability().minute is undefined for a tracker       *)
(* without a minute window, and reading .used of it raises a TypeError.    *)
ExecFailure(p, m, e, trs, t) ==
  LET tr == Refreshed(trs[p][m], t)
  IN IF Includes429(e) /\ HasConfig(p, m)
     THEN IF "minute" \in Owned(tr)
          THEN [err |-> e,
                trs |-> [trs EXCEPT ![p][m] =
                           RecordN(tr, tr.limits["minute"] - Used(tr, "minute", t), t)]]
          ELSE [err |-> Err("TypeError", 0, "used", 0),
                trs |-> [trs EXCEPT ![p][m] = tr]]
     ELSE [err |-> e, trs |-> trs]

----------------------------------------------------------------------------
(* RoutingStrategy *)

RECURSIVE FilterCanHandle(_, _, _, _)
FilterCanHandle(list, m, trs, t) ==
  IF list = <<>> THEN [avail |-> <<>>, trs |-> trs]
  ELSE LET c == ProviderCanHandle(Head(list), m, trs, t)
           rest == FilterCanHandle(Tail(list), m, c.trs, t)
       IN [avail |-> IF c.val THEN <<Head(list)>> \o rest.avail ELSE rest.avail,
           trs |-> rest.trs]

Tier(p) == cfg.providers[p].tier


(* variant: the cost order with the tiers swapped *)
CostComparePaidFirst(a, b, m, trs, t) ==
  IF Tier(a) # Tier(b) THEN (IF Tier(a) = "paid" THEN -1 ELSE 1)
  ELSE UtilDiff(a, b, m, trs, t)

(* The comparators handed to Array.prototype.sort *)
CostCompare(a, b, m, trs, t) ==
  IF Tier(a) # Tier(b) THEN (IF Tier(a) = "free" THEN -1 ELSE 1)
  ELSE UtilDiff(a, b, m, trs, t)

(* variant: providers of one tier are left in the order of the list *)
PerformanceCompareTierOnly(a, b, m, trs, t) ==
  IF Tier(a) # Tier(b) THEN (IF Tier(a) = "paid" THEN -1 ELSE 1)
  ELSE 0

PerformanceCompare(a, b, m, trs, t) ==
  IF Tier(a) # Tier(b) THEN (IF Tier(a) = "paid" THEN -1 ELSE 1)
  ELSE UtilDiff(a, b, m, trs, t)

(* variant: the most utilized provider first *)
LoadCompareDescending(a, b, m, trs, t) == UtilDiff(b, a, m, trs, t)

LoadCompare(a, b, m, trs, t) == UtilDiff(a, b, m, trs, t)

Compare(kind, a, b, m, trs, t) ==
  IF kind = "cost" THEN CostCompare(a, b, m, trs, t)
  ELSE IF kind = "performance" THEN PerformanceCompare(a, b, m, trs, t)
  ELSE LoadCompare(a, b, m, trs, t)

(* Array.prototype.sort is stable; for the short arrays of a pool it is an *)
(* insertion sort: x goes behind every element that does not compare       *)
(* greater than it.                                                        *)
RECURSIVE InsertSorted(_, _, _, _, _, _)
InsertSorted(kind, sorted, x, m, trs, t) ==
  IF sorted = <<>> THEN <<x>>
  ELSE LET n == Len(sorted)
       IN IF Compare(kind, sorted[n], x, m, trs, t) > 0
          THEN InsertSorted(kind, SubSeq(sorted, 1, n - 1), x, m, trs, t) \o <<sorted[n]>>
          ELSE sorted \o <<x>>

RECURSIVE SortFrom(_, _, _, _, _, _)
SortFrom(kind, sorted, rest, m, trs, t) ==
  IF rest = <<>> THEN sorted
  ELSE SortFrom(kind, InsertSorted(kind, sorted, Head(rest), m, trs, t), Tail(rest), m, trs, t)

Sort(kind, list, m, trs, t) == SortFrom(kind, <<>>, list, m, trs, t)


(* The arrangements of a list *)
Arrangements(list) ==
  {q \in [1..Len(list) -> {list[i] : i \in DOMAIN list}] :
     \A i \in DOMAIN list : \E j \in DOMAIN q : q[j] = list[i]}

(* What available.sort(comparator) can leave.  Where the comparator is a   *)
(* consistent order this is the sorted list; where it is not (two          *)
(* providers of different tiers, neither of the preferred tier, each       *)
(* compare greater than the other) the order is up to the implementation   *)
(* of sort: the model takes every arrangement in which no element compares *)
(* less than the one before it, as insertion and merge sorts leave.        *)
SortOutcomes(kind, list, m, trs, t) ==
  {q \in Arrangements(list) :
     \A i \in 1..(Len(q) - 1) : Compare(kind, q[i + 1], q[i], m, trs, t) >= 0}

(* variant: round robin that returns the provider under the cursor and     *)
(* leaves the cursor where it is                                           *)
PickKeepsCursor(kind, av, f, m, li, t) ==
  IF kind = "roundrobin"
  THEN [ok |-> TRUE, provider |-> av[(li % Len(av)) + 1], trs |-> f.trs, li |-> li]
  ELSE [ok |-> TRUE, provider |-> Sort(kind, av, m, f.trs, t)[1], trs |-> f.trs, li |-> li]

(* The choice of the strategy among the providers f.avail that passed the  *)
(* canHandle filter (never empty here)                                     *)
Pick(kind, av, f, m, li, t) ==
  IF kind = "roundrobin"
  THEN [ok |-> TRUE,
        provider |-> av[((li + 1) % Len(av)) + 1],
        trs |-> f.trs,
        li |-> (li + 1) % Len(av)]
  ELSE [ok |-> TRUE,
        provider |-> Sort(kind, av, m, f.trs, t)[1],
        trs |-> f.trs,
        li |-> li]

(* variant: select without the test for an empty candidate list *)
selectFromUnchecked(kind, list, f, m, li, t) ==
  Pick(kind, IF f.avail = <<>> THEN list ELSE f.avail, f, m, li, t)

(* variant: the choice is made among the providers that have a quota    *)
(* entry for the model, exhausted or not                                   *)
selectFromConfigured(kind, list, f, m, li, t) ==
  IF f.avail = <<>>
  THEN [ok |-> FALSE, provider |-> 0, trs |-> f.trs, li |-> li]
  ELSE Pick(kind, SelectSeq(list, LAMBDA p : HasConfig(p, m)), f, m, li, t)

(* select, after the filter returned f *)
selectFrom(kind, list, f, m, li, t) ==
  IF f.avail = <<>>
  THEN [ok |-> FALSE, provider |-> 0, trs |-> f.trs, li |-> li]
  ELSE Pick(kind, f.avail, f, m, li, t)

(* select(providers, model) of the active strategy *)
select(kind, list, m, trs, li, t) ==
  selectFrom(kind, list, FilterCanHandle(list, m, trs, t), m, li, t)

----------------------------------------------------------------------------
(* Observations used by the properties (they change no state) *)

ObsCount(trs, p, m, per, t) ==
  IF m \in DOMAIN trs[p] /\ per \in Owned(trs[p][m])
  THEN WGetCount(trs[p][m].windows[per], t) ELSE 0

Able(trs, m, t) == {p \in Providers : ProviderCanHandle(p, m, trs, t).val}

----------------------------------------------------------------------------
(* Configurations the pool is built with *)

Limits(mi, ho, da) == [minute |-> mi, hour |-> ho, day |-> da]

Provider(keyId, tier, limits) ==
  [keyId |-> keyId, tier |-> tier, modelConfigs |-> [m \in Models |-> limits]]

Unconfigured(keyId, tier) ==
  [keyId |-> keyId, tier |-> tier, modelConfigs |-> [m \in {} |-> 0]]

(* free limit 1/min, paid limit 2/min, CostOptimized *)
CostPool ==
  [strategy |-> "cost", logRaw |-> FALSE, inFlight |-> 1,
   providers |-> << Provider(1, "free", Limits(1, 3, 4)),
                    Provider(2, "paid", Limits(2, 3, 4)) >>]

(* three providers, PerformanceOptimized (the default strategy) *)
PerformancePool ==
  [strategy |-> "performance", logRaw |-> FALSE, inFlight |-> 1,
   providers |-> << Provider(1, "paid", Limits(1, 1, 2)),
                    Provider(2, "free", Limits(1, 2, 2)),
                    Provider(3, "free", Limits(2, 2, 2)) >>]

(* a limit set without a minute limit, and a provider without a quota entry *)
RoundRobinPool ==
  [strategy |-> "roundrobin", logRaw |-> FALSE, inFlight |-> 1,
   providers |-> << Provider(1, "free", [hour |-> 2, day |-> 2]),
                    Provider(2, "paid", Limits(2, 2, 2)),
                    Unconfigured(3, "free") >>]

BalancedPool ==
  [strategy |-> "balanced", logRaw |-> FALSE, inFlight |-> 1,
   providers |-> << Provider(1, "paid", Limits(2, 3, 3)),
                    Provider(2, "free", Limits(1, 1, 1)) >>]

(* one key, with the history of its raw-executor calls *)
SinglePool ==
  [strategy |-> "performance", logRaw |-> TRUE, inFlight |-> 1,
   providers |-> << Provider(1, "paid", Limits(2, 2, 3)) >>]

(* one key whose callers do not wait for one another *)
ConcurrentPool ==
  [strategy |-> "performance", logRaw |-> FALSE, inFlight |-> NumSlots,
   providers |-> << Provider(1, "paid", Limits(2, 3, 3)) >>]

(* keys of three tiers behind a cost-optimized strategy, their providers   *)
(* built on a quota table with an entry for each of the tiers              *)
TieredPool ==
  [strategy |-> "cost", logRaw |-> FALSE, inFlight |-> 1,
   providers |-> << Provider(1, "paid", Limits(2, 2, 2)),
                    Provider(2, "enterprise", Limits(2, 2, 2)),
                    Provider(3, "paid", Limits(2, 2, 2)) >>]

(* round robin over N providers whose limits the calls never reach *)
CyclePool(N) ==
  [strategy |-> "roundrobin", logRaw |-> FALSE, inFlight |-> 1,
   providers |-> [i \in 1..N |->
                    Provider(i, IF i = 1 THEN "free" ELSE "paid",
                             Limits(MaxCalls, MaxCalls, MaxCalls))]]

(* no provider has a quota entry for the model *)
NoQuotaPool ==
  [strategy |-> "roundrobin", logRaw |-> FALSE, inFlight |-> 1,
   providers |-> << Unconfigured(1, "free"), Unconfigured(2, "paid") >>]

(* a provider with quota entries for two models and one with an entry   *)
(* for one of them                                                        *)
TwoModels == {"modelA", "modelB"}

TwoModelPool ==
  [strategy |-> "performance", logRaw |-> FALSE, inFlight |-> 1,
   providers |-> << [keyId |-> 1, tier |-> "paid",
                     modelConfigs |-> [m \in TwoModels |->
                                         IF m = "modelA" THEN Limits(2, 3, 3)
                                         ELSE Limits(1, 2, 2)]],
                    [keyId |-> 2, tier |-> "free",
                     modelConfigs |-> [m \in {"modelA"} |-> Limits(1, 1, 1)]] >>]

(* two keys whose callers do not wait for one another *)
ConcurrentPoolOfTwo ==
  [strategy |-> "performance", logRaw |-> FALSE, inFlight |-> NumSlots,
   providers |-> << Provider(1, "paid", Limits(2, 0, 0)),
                    Provider(2, "free", Limits(1, 0, 0)) >>]

PoolConfigs ==
  {CostPool, PerformancePool, RoundRobinPool, BalancedPool, SinglePool, ConcurrentPool}

----------------------------------------------------------------------------
(* State *)

Slots == 1..NumSlots

IdleCall ==
  [pc |-> "idle", kind |-> "none", id |-> 0, model |-> "none", target |-> 0,
   provider |-> 0, attempts |-> <<>>, rawErrs |-> <<>>, primaryErr |-> NoErr,
   ableAtStart |-> {}, ableAtCatch |-> {}]

NoCall ==
  [id |-> 0, kind |-> "none", model |-> "none", target |-> 0, attempts |-> <<>>,
   rawErrs |-> <<>>, primaryErr |-> NoErr, ableAtStart |-> {}, ableAtCatch |-> {},
   ableAtEnd |-> {}, ok |-> FALSE, by |-> 0, err |-> NoErr]

(* No counter is used on its own *)
NoCounter == [kind |-> "none"]

NoQuery == [op |-> "none", val |-> 0]

(* No API client is followed *)
NoClient == [started |-> -1]

InitPool(configs) ==
  /\ now = StartHour * 3600 * MsPerSecond
  /\ cfg \in configs
  /\ trackers = [p \in 1..Len(cfg.providers) |-> [m \in {} |-> 0]]
  /\ lastIndex = 0
  /\ calls = [c \in Slots |-> IdleCall]
  /\ last = NoCall
  /\ rawLog = <<>>
  /\ last429 = [p \in 1..Len(cfg.providers) |-> [m \in Models |-> -1]]
  /\ ncalls = 0
  /\ nticks = 0
  /\ upstreamFailed = FALSE
  /\ ctr = NoCounter
  /\ events = <<>>
  /\ seen = NoQuery

InitWith(configs) == InitPool(configs) /\ client = NoClient

(* The calls that have started and not yet ended *)
InFlight == {c \in Slots : calls[c].pc # "idle"}

(* A new call takes the first free slot; cfg.inFlight is the number of     *)
(* calls the callers keep in flight at once (1: each call is awaited       *)
(* before the next one starts).                                            *)
CanStart(c) ==
  /\ calls[c].pc = "idle"
  /\ \A c2 \in Slots : c2 < c => calls[c2].pc # "idle"
  /\ Cardinality(InFlight) < cfg.inFlight

(* The summary of a finished call *)
Summary(cl, ok, by, err, trs, t) ==
  [id |-> cl.id, kind |-> cl.kind, model |-> cl.model, target |-> cl.target,
   attempts |-> cl.attempts, rawErrs |-> cl.rawErrs, primaryErr |-> cl.primaryErr,
   ableAtStart |-> cl.ableAtStart, ableAtCatch |-> cl.ableAtCatch,
   ableAtEnd |-> Able(trs, cl.model, t), ok |-> ok, by |-> by, err |-> err]

RawCall(p, m, id, t) == [provider |-> p, model |-> m, call |-> id, at |-> t]

(* rawLog is the history of the raw-executor calls; it is kept for the     *)
(* configurations that ask for it.                                         *)
Logged(entry) == IF cfg.logRaw THEN Append(rawLog, entry) ELSE rawLog

----------------------------------------------------------------------------
(* ProviderPool.execute *)


(* return await fallback.execute(...): b is the synchronous part of the    *)
(* execute of the fallback s.provider                                      *)
FallbackOutcome(s, b) ==
  [retry |-> b.admit, provider |-> s.provider, trs |-> b.trs, li |-> s.li, err |-> b.err]

FallbackExecute(s, m, t) == FallbackOutcome(s, ExecBegin(s.provider, m, s.trs, t))

Rethrow(e, trs, li) == [retry |-> FALSE, provider |-> 0, trs |-> trs, li |-> li, err |-> e]

(* variant: the catch block re-raises without a fallback *)
FailoverNoRetry(f, m, e, li, t) == Rethrow(e, f.trs, li)

(* the body of `if (isRateLimit)`, f being the filtered fallbackProviders *)
Failover(f, m, e, li, t) ==
  IF Len(f.avail) > 0
  THEN FallbackExecute(select(cfg.strategy, f.avail, m, f.trs, li, t), m, t)
  ELSE Rethrow(e, f.trs, li)

(* variant: the failed provider stays among the fallback candidates *)
PoolCatchNoExclude(failed, m, e, trs, li, t) ==
  IF isRateLimit(e)
  THEN Failover(FilterCanHandle(AllProviders, m, trs, t), m, e, li, t)
  ELSE Rethrow(e, trs, li)

(* The catch block of ProviderPool.execute after provider `failed` threw e. *)
PoolCatch(failed, m, e, trs, li, t) ==
  IF isRateLimit(e)
  THEN Failover(FilterCanHandle(SelectSeq(AllProviders, LAMBDA q : q # failed), m, trs, t),
                m, e, li, t)
  ELSE Rethrow(e, trs, li)

(* The providers the catch block could fail over to *)
FallbackAble(failed, m, trs, t) == Able(trs, m, t) \ {failed}

(* execute(model, ...): selectProvider, then the synchronous part of the   *)
(* selected provider's execute, up to the first await.                     *)
StartPool(c, m) ==
  /\ CanStart(c)
  /\ ncalls < MaxCalls
  /\ \E cl \in {[IdleCall EXCEPT !.kind = "pool", !.id = ncalls + 1, !.model = m,
                                 !.ableAtStart = Able(trackers, m, now)]} :
     \E s \in {select(cfg.strategy, AllProviders, m, trackers, lastIndex, now)} :
       IF ~s.ok
       THEN /\ trackers' = s.trs
            /\ lastIndex' = s.li
            /\ calls' = calls
            /\ last' = Summary(cl, FALSE, 0, Err("NoProvidersAvailable", 0, m, 0), s.trs, now)
            /\ rawLog' = rawLog
       ELSE \E b \in {ExecBegin(s.provider, m, s.trs, now)} :
              IF b.admit
              THEN /\ trackers' = b.trs
                   /\ lastIndex' = s.li
                   /\ calls' = [calls EXCEPT ![c] =
                                  [cl EXCEPT !.pc = "awaitPrimary",
                                             !.provider = s.provider,
                                             !.attempts = <<s.provider>>]]
                   /\ last' = last
                   /\ rawLog' = Logged(RawCall(s.provider, m, cl.id, now))
              ELSE \E k \in {PoolCatch(s.provider, m, b.err, b.trs, s.li, now)} :
                   \E cl2 \in {[cl EXCEPT !.provider = s.provider, !.primaryErr = b.err,
                                          !.ableAtCatch =
                                            FallbackAble(s.provider, m, b.trs, now)]} :
                     /\ trackers' = k.trs
                     /\ lastIndex' = k.li
                     /\ IF k.retry
                        THEN /\ calls' = [calls EXCEPT ![c] =
                                            [cl2 EXCEPT !.pc = "awaitFallback",
                                                        !.provider = k.provider,
                                                        !.attempts = <<k.provider>>]]
                             /\ last' = last
                             /\ rawLog' = Logged(RawCall(k.provider, m, cl.id, now))
                        ELSE /\ calls' = calls
                             /\ last' = Summary(cl2, FALSE, 0, k.err, k.trs, now)
                             /\ rawLog' = rawLog
  /\ ncalls' = ncalls + 1
  /\ UNCHANGED <<now, cfg, last429, nticks, upstreamFailed, counterVars, clientVars>>

(* RateLimitedProvider.execute called directly on provider p *)
StartDirect(c, p, m) ==
  /\ CanStart(c)
  /\ ncalls < MaxCalls
  /\ \E cl \in {[IdleCall EXCEPT !.kind = "direct", !.id = ncalls + 1, !.model = m,
                                 !.target = p,
                                 !.ableAtStart = Able(trackers, m, now)]} :
     \E b \in {ExecBegin(p, m, trackers, now)} :
       /\ trackers' = b.trs
       /\ IF b.admit
          THEN /\ calls' = [calls EXCEPT ![c] =
                              [cl EXCEPT !.pc = "awaitDirect", !.provider = p,
                                         !.attempts = <<p>>]]
               /\ last' = last
               /\ rawLog' = Logged(RawCall(p, m, cl.id, now))
          ELSE /\ calls' = calls
               /\ last' = Summary(cl, FALSE, 0, b.err, b.trs, now)
               /\ rawLog' = rawLog
  /\ ncalls' = ncalls + 1
  /\ UNCHANGED <<now, cfg, lastIndex, last429, nticks, upstreamFailed, counterVars, clientVars>>

(* The raw executor of the awaited provider returns a result: the request  *)
(* is recorded and the call returns the result.                            *)
RawReturnOk(c) ==
  /\ calls[c].pc \in {"awaitPrimary", "awaitFallback", "awaitDirect"}
  /\ \E cl \in {[calls[c] EXCEPT !.rawErrs = Append(@, NoErr)]} :
     \E trs \in {ExecSuccess(cl.provider, cl.model, trackers, now)} :
       /\ trackers' = trs
       /\ last' = Summary(cl, TRUE, cl.provider, NoErr, trs, now)
       /\ calls' = [calls EXCEPT ![c] = IdleCall]
  /\ UNCHANGED <<now, cfg, lastIndex, rawLog, last429, ncalls, nticks, upstreamFailed, counterVars, clientVars>>

(* The raw executor of the awaited provider fails with an error of kind k. *)
RawReturnErr(c, k) ==
  /\ calls[c].pc \in {"awaitPrimary", "awaitFallback", "awaitDirect"}
  /\ \E e \in {Err(k, calls[c].provider, "", 2 * calls[c].id + Len(calls[c].attempts))} :
     \E cl \in {[calls[c] EXCEPT !.rawErrs = Append(@, e)]} :
     \E x \in {ExecFailure(cl.provider, cl.model, e, trackers, now)} :
       IF cl.pc = "awaitPrimary"
       THEN \E pk \in {PoolCatch(cl.provider, cl.model, x.err, x.trs, lastIndex, now)} :
            \E cl2 \in {[cl EXCEPT !.primaryErr = x.err,
                                   !.ableAtCatch =
                                     FallbackAble(cl.provider, cl.model, x.trs, now)]} :
              /\ trackers' = pk.trs
              /\ lastIndex' = pk.li
              /\ IF pk.retry
                 THEN /\ calls' = [calls EXCEPT ![c] =
                                     [cl2 EXCEPT !.pc = "awaitFallback",
                                                 !.provider = pk.provider,
                                                 !.attempts = Append(@, pk.provider)]]
                      /\ last' = last
                      /\ rawLog' = Logged(RawCall(pk.provider, cl.model, cl.id, now))
                 ELSE /\ calls' = [calls EXCEPT ![c] = IdleCall]
                      /\ last' = Summary(cl2, FALSE, 0, pk.err, pk.trs, now)
                      /\ rawLog' = rawLog
       ELSE /\ trackers' = x.trs
            /\ lastIndex' = lastIndex
            /\ calls' = [calls EXCEPT ![c] = IdleCall]
            /\ last' = Summary(cl, FALSE, 0, x.err, x.trs, now)
            /\ rawLog' = rawLog
  /\ upstreamFailed' = TRUE
  /\ last429' = IF k = "Upstream429"
                THEN [last429 EXCEPT ![calls[c].provider][calls[c].model] = now]
                ELSE last429
  /\ UNCHANGED <<now, cfg, ncalls, nticks, counterVars, clientVars>>

(* The clock advances by d milliseconds *)
Tick(d) ==
  /\ nticks < MaxTicks
  /\ now' = now + d
  /\ nticks' = nticks + 1
  /\ UNCHANGED <<cfg, trackers, lastIndex, calls, last, rawLog, last429, ncalls, upstreamFailed, counterVars, clientVars>>

(* Use of the pool: ProviderPool.execute *)
PoolNext ==
  \/ \E c \in Slots, m \in Models : StartPool(c, m)
  \/ \E c \in Slots : RawReturnOk(c)
  \/ \E c \in Slots, k \in UpstreamKinds : RawReturnErr(c, k)
  \/ \E d \in TickSteps : Tick(d)

(* Use of the providers one by one: RateLimitedProvider.execute *)
ProviderNext ==
  \/ \E c \in Slots, p \in Providers, m \in Models : StartDirect(c, p, m)
  \/ \E c \in Slots : RawReturnOk(c)
  \/ \E c \in Slots, k \in UpstreamKinds : RawReturnErr(c, k)
  \/ \E d \in TickSteps : Tick(d)

(* Use of the providers one by one, for two models *)
ModelsNext ==
  \/ \E c \in Slots, p \in Providers, m \in TwoModels : StartDirect(c, p, m)
  \/ \E c \in Slots : RawReturnOk(c)
  \/ \E c \in Slots, k \in UpstreamKinds : RawReturnErr(c, k)
  \/ \E d \in TickSteps : Tick(d)

SpecCost == InitWith({CostPool}) /\ [][PoolNext]_vars

SpecPerf == InitWith({PerformancePool}) /\ [][PoolNext]_vars

SpecRR == InitWith({RoundRobinPool}) /\ [][PoolNext]_vars

SpecBal == InitWith({BalancedPool}) /\ [][PoolNext]_vars


SpecFailover == InitWith({CostPool, PerformancePool}) /\ [][PoolNext]_vars

SpecSingle == InitWith({SinglePool}) /\ [][PoolNext]_vars

SpecProv == InitWith({RoundRobinPool}) /\ [][ProviderNext]_vars

SpecTiers == InitWith({TieredPool}) /\ [][ProviderNext]_vars

SpecCycle == InitWith({CyclePool(2), CyclePool(3)}) /\ [][PoolNext]_vars

SpecNoQuota == InitWith({RoundRobinPool, NoQuotaPool}) /\ [][PoolNext]_vars

SpecModels == InitWith({TwoModelPool}) /\ [][ModelsNext]_vars

SpecConcurrentPool == InitWith({ConcurrentPoolOfTwo}) /\ [][PoolNext]_vars

SpecConcurrent == InitWith({ConcurrentPool}) /\ [][ProviderNext]_vars

----------------------------------------------------------------------------
(* A counter or a tracker used on its own: constructed at the start, then  *)
(* incremented, queried and reset while the clock advances.                *)

CounterConfig(kind, windowSeconds, bucketSeconds, limit, ticks) ==
  [kind |-> kind, windowSeconds |-> windowSeconds, bucketSeconds |-> bucketSeconds,
   limit |-> limit, ticks |-> ticks]

(* the windows of the SlidingWindow tests, scaled to seconds: a window the *)
(* bucket size divides, 1-second buckets, and a non-divisible window       *)
SlidingConfigs ==
  << CounterConfig("sliding", 4, 2, 0, {500, 2000}),
     CounterConfig("sliding", 3, 1, 0, {500, 1000}),
     CounterConfig("sliding", 5, 2, 0, {500, 2500}) >>

(* a short fixed window and the daily window *)
FixedConfigs ==
  << CounterConfig("fixed", 3, 0, 0, {500, 1000, 2000}),
     CounterConfig("fixed", DayWindowSeconds, 0, 0,
                   {DstShiftMs, DayMs - DstShiftMs, DayMs - DstShiftMs \div 2, DayMs}) >>

(* RateTracker({minute: 2}) *)
TrackerConfigs ==
  << CounterConfig("tracker", 0, 0, 2, {1000, 59000, 60000}) >>

CounterConfigs == SlidingConfigs \o FixedConfigs \o TrackerConfigs

NewCounter(c, t) ==
  IF c.kind = "sliding" THEN NewSlidingWindow(c.windowSeconds, c.bucketSeconds, t)
  ELSE IF c.kind = "fixed" THEN NewFixedWindow(c.windowSeconds, t)
  ELSE NewRateTracker([minute |-> c.limit], t)

InitAlone(configs) ==
  /\ now = StartHour * 3600 * MsPerSecond
  /\ \E i \in DOMAIN configs : cfg = configs[i]
  /\ events = <<>>
  /\ seen = NoQuery
  /\ trackers = <<>>
  /\ lastIndex = 0
  /\ calls = [c \in Slots |-> IdleCall]
  /\ last = NoCall
  /\ rawLog = <<>>
  /\ last429 = <<>>
  /\ ncalls = 0
  /\ nticks = 0
  /\ upstreamFailed = FALSE
  /\ client = NoClient

InitCounter(configs) == InitAlone(configs) /\ ctr = NewCounter(cfg, now)

(* An increment of the history is still held by the counter o after the    *)
(* rotation or the expiry check that an operation at time t starts with.   *)
Held(o, e, t) ==
  /\ e.live
  /\ IF cfg.kind = "sliding" THEN ~RotatedOut(o, t, e.idx)
     ELSE IF cfg.kind = "fixed" THEN t < o.windowStart + o.windowDuration
     ELSE TRUE

Aged(o, evs, t) == [i \in DOMAIN evs |-> [evs[i] EXCEPT !.live = Held(o, evs[i], t)]]

(* The bucket an increment at time t goes to *)
IndexAt(o, t) == IF cfg.kind = "sliding" THEN SWRotate(o, t).currentIndex ELSE 0

(* increment() / recordRequest() *)
Increment ==
  /\ cfg.kind \in {"sliding", "fixed", "tracker"}
  /\ Len(events) < MaxIncrements
  /\ ctr' = IF cfg.kind = "tracker" THEN recordRequest(ctr, now) ELSE WIncrement(ctr, now)
  /\ events' = Append(Aged(ctr, events, now),
                      [at |-> now, idx |-> IndexAt(ctr, now), live |-> TRUE])
  /\ seen' = [op |-> "increment", val |-> 0]
  /\ UNCHANGED <<now, nticks, poolVars, clientVars>>

(* getCount() *)
GetCount ==
  /\ cfg.kind \in {"sliding", "fixed"}
  /\ ctr' = WRefresh(ctr, now)
  /\ events' = Aged(ctr, events, now)
  /\ seen' = [op |-> "getCount", val |-> WGetCount(ctr, now)]
  /\ UNCHANGED <<now, nticks, poolVars, clientVars>>

(* canIncrement(limit) *)
CanIncrement(limit) ==
  /\ cfg.kind \in {"sliding", "fixed"}
  /\ ctr' = WRefresh(ctr, now)
  /\ events' = Aged(ctr, events, now)
  /\ seen' = [op |-> "canIncrement", val |-> IF WCanIncrement(ctr, limit, now) THEN 1 ELSE 0]
  /\ UNCHANGED <<now, nticks, poolVars, clientVars>>

(* canHandle() of the tracker *)
CanHandle ==
  /\ cfg.kind = "tracker"
  /\ \E r \in {TrackerCanHandle(ctr, now)} :
       /\ ctr' = r.tr
       /\ seen' = [op |-> "canHandle", val |-> IF r.val THEN 1 ELSE 0]
  /\ events' = events
  /\ UNCHANGED <<now, nticks, poolVars, clientVars>>

(* reset() *)
Reset ==
  /\ cfg.kind \in {"sliding", "fixed", "tracker"}
  /\ ctr' = IF cfg.kind = "tracker" THEN TrackerReset(ctr, now) ELSE WReset(ctr, now)
  /\ events' = <<>>
  /\ seen' = [op |-> "reset", val |-> 0]
  /\ UNCHANGED <<now, nticks, poolVars, clientVars>>

(* The clock advances by d milliseconds *)
CounterTick(d) ==
  /\ nticks < MaxCounterTicks
  /\ now' = now + d
  /\ nticks' = nticks + 1
  /\ UNCHANGED <<poolVars, counterVars, clientVars>>

CounterNext ==
  \/ Increment
  \/ GetCount
  \/ \E limit \in 1..MaxIncrements : CanIncrement(limit)
  \/ CanHandle
  \/ Reset
  \/ \E d \in cfg.ticks : CounterTick(d)

SpecCounter == InitCounter(CounterConfigs) /\ [][CounterNext]_vars

----------------------------------------------------------------------------
(* A RateTracker on its own, built from a limit set.  A period is present  *)
(* in the limit set when it is in its domain; its limit may be 0.          *)

TrackerOf(limits, ticks) ==
  [kind |-> "tracker", windowSeconds |-> 0, bucketSeconds |-> 0, limit |-> 0,
   ticks |-> ticks, limits |-> limits]

LimitSets ==
  << TrackerOf([minute |-> 1, hour |-> 2], {1, 59999}),
     TrackerOf([minute |-> 2, day |-> 1], {1, 59999}),
     TrackerOf([minute |-> 0, hour |-> 1], {1000, 3599000}) >>

InitTracker(configs) == InitAlone(configs) /\ ctr = NewRateTracker(cfg.limits, now)

(* Date.now() is read by every rotate(): between two calls of one          *)
(* synchronous block the clock stands still or moves on by a millisecond   *)
ClockSteps == {0, 1}

PeriodNumber(name) ==
  IF name = "minute" THEN 1 ELSE IF name = "hour" THEN 2 ELSE IF name = "day" THEN 3 ELSE 0

(* getBottleneck() *)
GetBottleneck ==
  /\ cfg.kind = "tracker"
  /\ ctr' = Refreshed(ctr, now)
  /\ seen' = [op |-> "getBottleneck", val |-> PeriodNumber(getBottleneck(ctr, now))]
  /\ events' = events
  /\ UNCHANGED <<now, nticks, poolVars, clientVars>>

(* execute() when the re-check fails: canHandle() answers false and the    *)
(* message is built from getBottleneck(), d milliseconds later             *)
RejectedExecute(d) ==
  /\ cfg.kind = "tracker"
  /\ d > 0 => nticks < MaxCounterTicks
  /\ \E r \in {TrackerCanHandle(ctr, now)} :
       /\ ~r.val
       /\ ctr' = Refreshed(r.tr, now + d)
       /\ seen' = [op |-> "RateLimitExceeded",
                   val |-> PeriodNumber(getBottleneck(r.tr, now + d)),
                   at |-> now + d]
  /\ now' = now + d
  /\ nticks' = IF d > 0 THEN nticks + 1 ELSE nticks
  /\ events' = events
  /\ UNCHANGED <<poolVars, clientVars>>

TrackerNext ==
  \/ Increment
  \/ CanHandle
  \/ GetBottleneck
  \/ \E d \in ClockSteps : RejectedExecute(d)
  \/ Reset
  \/ \E d \in cfg.ticks : CounterTick(d)

SpecTracker == InitTracker(LimitSets) /\ [][TrackerNext]_vars


----------------------------------------------------------------------------
(* CerebrasApiClient.callCerebras: the client of a key overrides the       *)
(* module-wide config, awaits callCerebras and restores what it saved.     *)
(* callCerebras awaits readFileContent before it reads config.cerebrasModel *)
(* and config.cerebrasApiKey for the request.                              *)

MaxClientCalls == 3

(* config.cerebrasApiKey as loaded from the environment: the key of the    *)
(* first client (CEREBRAS_API_KEY) or another value (0)                    *)
EnvKeys == {0, 1}

EnvModel == "modelA"

IdleRun == [pc |-> "idle", apiKey |-> 0, model |-> "", originalKey |-> 0,
            originalModel |-> "", sentKey |-> 0, sentModel |-> ""]

NewClient(key, model) ==
  [started |-> 0,
   initial |-> [cerebrasApiKey |-> key, cerebrasModel |-> model],
   config |-> [cerebrasApiKey |-> key, cerebrasModel |-> model],
   runs |-> [c \in Slots |-> IdleRun]]

InitClient(configs) ==
  /\ InitPool(configs)
  /\ \E k \in EnvKeys : client = NewClient(k, EnvModel)

(* provider p was selected for model m: its client saves the config and    *)
(* overrides it, and callCerebras runs up to its first await               *)
CallCerebrasBegin(c, p, m) ==
  /\ client.started < MaxClientCalls
  /\ client.runs[c].pc = "idle"
  /\ HasConfig(p, m)
  /\ client' = [client EXCEPT
       !.started = @ + 1,
       !.config = [cerebrasApiKey |-> cfg.providers[p].keyId, cerebrasModel |-> m],
       !.runs[c] = [IdleRun EXCEPT !.pc = "reading",
                                   !.apiKey = cfg.providers[p].keyId,
                                   !.model = m,
                                   !.originalKey = client.config.cerebrasApiKey,
                                   !.originalModel = client.config.cerebrasModel]]
  /\ UNCHANGED <<now, nticks, poolVars, counterVars>>

(* readFileContent has settled: the request is built from config and sent *)
CallCerebrasRequest(c) ==
  /\ client.runs[c].pc = "reading"
  /\ client' = [client EXCEPT
       !.runs[c] = [@ EXCEPT !.pc = "sent",
                             !.sentKey = client.config.cerebrasApiKey,
                             !.sentModel = client.config.cerebrasModel]]
  /\ UNCHANGED <<now, nticks, poolVars, counterVars>>

(* the upstream call has settled, with a result or an error: finally *)
CallCerebrasFinally(c) ==
  /\ client.runs[c].pc = "sent"
  /\ client' = [client EXCEPT
       !.config = [cerebrasApiKey |-> client.runs[c].originalKey,
                   cerebrasModel |-> client.runs[c].originalModel],
       !.runs[c] = IdleRun]
  /\ UNCHANGED <<now, nticks, poolVars, counterVars>>

ClientNext ==
  \/ \E c \in Slots, p \in Providers, m \in TwoModels : CallCerebrasBegin(c, p, m)
  \/ \E c \in Slots : CallCerebrasRequest(c)
  \/ \E c \in Slots : CallCerebrasFinally(c)

SpecClient == InitClient({TwoModelPool}) /\ [][ClientNext]_vars


----------------------------------------------------------------------------
(* Properties *)

Range(f) == {f[i] : i \in DOMAIN f}

ConfiguredLimits(p, m) == cfg.providers[p].modelConfigs[m]

RollingMs(per) ==
  IF per = "minute" THEN MinuteWindowSeconds * MsPerSecond
  ELSE HourWindowSeconds * MsPerSecond

(* The raw-executor calls to provider p for model m in [from, from + span) *)
RawCallsWithin(p, m, from, span) ==
  Cardinality({i \in DOMAIN rawLog :
                 /\ rawLog[i].provider = p
                 /\ rawLog[i].model = m
                 /\ from <= rawLog[i].at
                 /\ rawLog[i].at < from + span})

(* C1: under sequential use without upstream failures, the raw-executor    *)
(* calls made to a provider for a model within any span of 60 s (3600 s)   *)
(* never exceed the configured minute (hour) limit.                        *)
C1_QuotaNeverExceeded ==
  (cfg.logRaw /\ ~upstreamFailed) =>
    \A i \in DOMAIN rawLog : \A per \in {"minute", "hour"} :
      LET p == rawLog[i].provider
          m == rawLog[i].model
      IN HasLimit(ConfiguredLimits(p, m), per) =>
           RawCallsWithin(p, m, rawLog[i].at, RollingMs(per)) <= ConfiguredLimits(p, m)[per]

(* C2: canHandle() of a tracker is false iff some owned period's count is  *)
(* at or above that period's limit.                                        *)
C2_CanHandleIffAllBelow ==
  \A p \in Providers : \A m \in DOMAIN trackers[p] :
    LET tr == trackers[p][m]
    IN (TrackerCanHandle(tr, now).val = FALSE)
         <=> (\E per \in Owned(tr) : ObsCount(trackers, p, m, per, now) >= tr.limits[per])

(* C2 witness: a tracker whose minute period is below its limit is kept    *)
(* from admitting by a later period.                                       *)
C2_Witness ==
  \E p \in Providers : \E m \in DOMAIN trackers[p] :
    LET tr == trackers[p][m]
    IN /\ "minute" \in Owned(tr)
       /\ ObsCount(trackers, p, m, "minute", now) < tr.limits["minute"]
       /\ ~TrackerCanHandle(tr, now).val

(* No observable count of any tracker differs between the two states of a step *)
CountsUnchanged ==
  \A p \in Providers : \A m \in Models : \A per \in Range(Periods) :
    ObsCount(trackers', p, m, per, now') = ObsCount(trackers, p, m, per, now)

Distinct(a) == \A i, j \in DOMAIN a : i # j => a[i] # a[j]

(* The error a provider's execute fails with when its raw executor raised e *)
PropagatedFrom(e, err) ==
  err = e \/ (Includes429(e) /\ err.kind = "TypeError")

(* C3: within one ProviderPool.execute the raw executor is invoked at most *)
(* twice and never twice on the same provider; after a rate-limit-class    *)
(* failure of the selected provider, and when another provider can handle  *)
(* the model, the pool retries once on one of those; a failure of the      *)
(* fallback reaches the caller.                                            *)
C3_SingleFailoverHop ==
  /\ \A c \in Slots :
       /\ Len(calls[c].attempts) <= 2
       /\ Distinct(calls[c].attempts)
       /\ calls[c].pc = "awaitFallback" =>
            /\ isRateLimit(calls[c].primaryErr)
            /\ calls[c].provider \in calls[c].ableAtCatch
  /\ Len(last.attempts) <= 2
  /\ Distinct(last.attempts)
  /\ (last.kind = "pool" /\ isRateLimit(last.primaryErr) /\ last.ableAtCatch # {}) =>
       /\ Len(last.attempts) = 2
       /\ last.attempts[2] \in last.ableAtCatch
  /\ (last.kind = "pool" /\ Len(last.attempts) = 2 /\ ~last.ok) =>
       PropagatedFrom(last.rawErrs[2], last.err)

(* C3 witness: the fallback, chosen among two able providers, failed too *)
C3_Witness ==
  /\ last.kind = "pool"
  /\ isRateLimit(last.primaryErr)
  /\ Cardinality(last.ableAtCatch) >= 2
  /\ Len(last.attempts) = 2
  /\ ~last.ok

C4_State ==
  (last.kind = "pool" /\ Len(last.rawErrs) >= 1 /\ last.rawErrs[1].kind = "UpstreamOther") =>
    /\ ~last.ok
    /\ last.err = last.rawErrs[1]
    /\ Len(last.attempts) = 1

C4_Step ==
  (\E c \in Slots :
     /\ calls[c].pc = "awaitPrimary"
     /\ calls'[c].pc = "idle"
     /\ ~last'.ok
     /\ last'.rawErrs[1].kind = "UpstreamOther") => CountsUnchanged

(* C4: when the selected provider's raw executor fails with an error that  *)
(* carries no rate-limit marker, ProviderPool.execute fails with that same *)
(* error, no other provider's executor is invoked and no count changes.    *)
C4_UnmarkedErrorPropagates == [](C4_State) /\ [][C4_Step]_vars

(* C4 witness: an unmarked failure while another provider could have served *)
C4_Witness ==
  /\ last.kind = "pool"
  /\ Len(last.rawErrs) = 1
  /\ last.rawErrs[1].kind = "UpstreamOther"
  /\ last.ableAtCatch # {}

(* C5: when the selected provider fails with a rate-limit-class error and  *)
(* no other provider can handle the model, the caller receives the         *)
(* NoProvidersAvailable error for that model.                              *)
C5_NoFallbackGivesNoProvidersAvailable ==
  (last.kind = "pool" /\ ~last.ok /\ isRateLimit(last.primaryErr) /\ last.ableAtCatch = {}) =>
    /\ last.err.kind = "NoProvidersAvailable"
    /\ last.err.what = last.model

(* C6 as claimed: a call fails with a rate-limit-class error only when     *)
(* every provider was tried in this call or cannot handle the model.       *)
C6_RateLimitOnlyOnExhaustion ==
  (last.kind = "pool" /\ ~last.ok /\ isRateLimit(last.err)) =>
    last.ableAtEnd \ Range(last.attempts) = {}

(* C6 as amended: a call fails with a rate-limit-class error only when the *)
(* single failover hop is used up (no other provider could handle the      *)
(* model when the selected one failed, or the one fallback was tried and   *)
(* failed); while another provider can handle the model at that moment the *)
(* call is retried on one of them; in a pool of at most two providers this *)
(* is exhaustion of all candidates.                                        *)
C6_RateLimitOnlyAfterFailoverHop ==
  /\ (last.kind = "pool" /\ ~last.ok /\ isRateLimit(last.err)) =>
       /\ \/ last.ableAtCatch = {} /\ last.err = last.primaryErr /\ Len(last.attempts) = 1
          \/ Len(last.attempts) = 2 /\ last.attempts[2] \in last.ableAtCatch
       /\ Len(cfg.providers) <= 2 => last.ableAtEnd \ Range(last.attempts) = {}
  /\ (last.kind = "pool" /\ isRateLimit(last.primaryErr) /\ last.ableAtCatch # {}) =>
       Len(last.attempts) = 2

(* C6 witness: both hops failed while a third provider could still serve *)
C6_Witness ==
  /\ last.kind = "pool"
  /\ ~last.ok
  /\ isRateLimit(last.err)
  /\ Len(last.attempts) = 2
  /\ last.ableAtEnd \ Range(last.attempts) # {}

C7_State ==
  (last.kind = "pool" /\ last.ableAtStart = {}) =>
    /\ ~last.ok
    /\ last.err = Err("NoProvidersAvailable", 0, last.model, 0)
    /\ last.attempts = <<>>

C7_Step ==
  (last'.id # last.id /\ last'.kind = "pool" /\ last'.ableAtStart = {}) =>
    /\ \A c \in Slots : calls[c].pc = "idle" /\ calls'[c].pc = "idle"
    /\ ncalls' = ncalls + 1
    /\ CountsUnchanged
    /\ rawLog' = rawLog

(* C7: when no provider can handle the model at selection time, execute    *)
(* fails at once with NoProvidersAvailable: <model>, invokes no raw        *)
(* executor and changes no count.                                          *)
C7_NoProviderFailsAtOnce == [](C7_State) /\ [][C7_Step]_vars

(* C7 witness: every provider is exhausted and the call was refused *)
C7_Witness ==
  /\ last.kind = "pool"
  /\ last.ableAtStart = {}
  /\ last.err.kind = "NoProvidersAvailable"
  /\ \A p \in Providers : \E per \in Range(Periods) :
       ObsCount(trackers, p, last.model, per, now) > 0

FreeProvider == CHOOSE p \in Providers : Tier(p) = "free"

PaidProvider == CHOOSE p \in Providers : Tier(p) = "paid"

(* C8: CostOptimized, one free provider of minute limit F and one paid     *)
(* provider of minute limit P, sequential successful calls with no time    *)
(* passing: calls 1..F go to the free provider, calls F+1..F+P to the paid *)
(* one, every later call fails with NoProvidersAvailable.                  *)
C8_CostRoutingOrder ==
  (cfg.strategy = "cost" /\ nticks = 0 /\ ~upstreamFailed /\ last.kind = "pool") =>
    LET F == ConfiguredLimits(FreeProvider, last.model)["minute"]
        P == ConfiguredLimits(PaidProvider, last.model)["minute"]
    IN /\ last.id <= F => (last.ok /\ last.by = FreeProvider)
       /\ (F < last.id /\ last.id <= F + P) => (last.ok /\ last.by = PaidProvider)
       /\ last.id > F + P =>
            (~last.ok /\ last.err = Err("NoProvidersAvailable", 0, last.model, 0))

(* C8 witness: the call after the F+P served ones was refused *)
C8_Witness ==
  /\ cfg.strategy = "cost"
  /\ nticks = 0
  /\ ~upstreamFailed
  /\ last.kind = "pool"
  /\ last.id = ConfiguredLimits(FreeProvider, last.model)["minute"]
               + ConfiguredLimits(PaidProvider, last.model)["minute"] + 1
  /\ ~last.ok

C9_State ==
  (last.kind = "direct" /\ HasConfig(last.target, last.model)
     /\ last.target \notin last.ableAtStart) =>
    /\ ~last.ok
    /\ last.err.kind = "RateLimitExceeded"
    /\ last.err.who = cfg.providers[last.target].keyId
    /\ last.err.what \in Range(Periods)
    /\ last.attempts = <<>>

C9_Step ==
  (last'.id # last.id /\ last'.kind = "direct" /\ HasConfig(last'.target, last'.model)
     /\ last'.target \notin last'.ableAtStart) =>
    /\ \A c \in Slots : calls[c].pc = "idle" /\ calls'[c].pc = "idle"
    /\ CountsUnchanged
    /\ rawLog' = rawLog

Within429Minute(p, m) == last429[p][m] = now

C10_State ==
  \A p \in Providers : \A m \in Models :
    Within429Minute(p, m) => ~ProviderCanHandle(p, m, trackers, now).val

C10_Step ==
  \A c \in Slots :
    (calls[c].pc = "idle" /\ calls'[c].pc # "idle") =>
      ~Within429Minute(calls'[c].provider, calls'[c].model)

(* C10: after execute failed because the raw executor raised an error with *)
(* '429', the provider's canHandle(model) is false and a further execute   *)
(* is rejected locally until the minute window has moved on.               *)
C10_BlockedAfter429 == [](C10_State) /\ [][C10_Step]_vars

(* C11: whenever the raw executor fails, RateLimitedProvider.execute fails *)
(* with exactly the error the executor raised, with or without '429' in    *)
(* its message and for every limit set a tracker can be built from.        *)
C11_RawErrorReRaised ==
  (last.kind = "direct" /\ Len(last.rawErrs) = 1 /\ last.rawErrs[1] # NoErr) =>
    (~last.ok /\ last.err = last.rawErrs[1])

(* The calls in flight on provider p for model m *)
InFlightOn(p, m) ==
  Cardinality({c \in InFlight : calls[c].provider = p /\ calls[c].model = m})

C12_State ==
  ~upstreamFailed =>
    \A p \in Providers : \A m \in Models :
      HasConfig(p, m) =>
        \A per \in Range(Periods) :
          HasLimit(ConfiguredLimits(p, m), per) =>
            ObsCount(trackers, p, m, per, now) + InFlightOn(p, m)
              <= ConfiguredLimits(p, m)[per] - 1 + cfg.inFlight

C12_Step ==
  \A c \in Slots :
    (calls[c].pc = "idle" /\ calls'[c].pc # "idle") =>
      \A per \in Range(Periods) :
        HasLimit(ConfiguredLimits(calls'[c].provider, calls'[c].model), per) =>
          ObsCount(trackers, calls'[c].provider, calls'[c].model, per, now)
            < ConfiguredLimits(calls'[c].provider, calls'[c].model)[per]

----------------------------------------------------------------------------
(* Properties of the counters *)

(* The increments a getCount() made now would count *)
CountedNow == {i \in DOMAIN events : Held(ctr, events[i], now)}

AgeMs(i) == now - events[i].at

(* The time after which a rolling counter has rotated through all its      *)
(* buckets: ceil(W / b) * b seconds                                        *)
CoveredMs(c) == CeilDiv(c.windowSeconds, c.bucketSeconds) * c.bucketSeconds * MsPerSecond

(* C13: the count of a rolling counter of window W and bucket size b never *)
(* includes an increment made W + b or more seconds before the query.      *)
C13_NoEventOlderThanWindowPlusBucket ==
  cfg.kind = "sliding" =>
    /\ SWGetCount(ctr, now) = Cardinality(CountedNow)
    /\ \A i \in CountedNow :
         AgeMs(i) < (cfg.windowSeconds + cfg.bucketSeconds) * MsPerSecond

(* C13 witness: an increment older than W is counted, within the slack *)
C13_Witness ==
  /\ cfg.kind = "sliding"
  /\ seen.op = "getCount"
  /\ seen.val > 0
  /\ \E i \in CountedNow : AgeMs(i) >= cfg.windowSeconds * MsPerSecond

(* C14 as claimed: for both counter variants and every window length and   *)
(* bucket size, the count never includes an event whose age exceeds the    *)
(* window length.                                                          *)
C14_NoEventOlderThanWindow ==
  cfg.kind \in {"sliding", "fixed"} =>
    /\ WGetCount(ctr, now) = Cardinality(CountedNow)
    /\ \A i \in CountedNow : AgeMs(i) <= cfg.windowSeconds * MsPerSecond

(* C14 as amended: the count of a rolling counter never includes an event  *)
(* whose age reaches ceil(W / b) * b seconds, which is W exactly when the  *)
(* bucket size divides the window; the count of a fixed counter never      *)
(* includes an event whose age reaches the window length.                  *)
C14_NoEventOlderThanCoveredSpan ==
  /\ cfg.kind = "sliding" =>
       /\ WGetCount(ctr, now) = Cardinality(CountedNow)
       /\ \A i \in CountedNow : AgeMs(i) < CoveredMs(cfg)
  /\ cfg.kind = "fixed" =>
       /\ WGetCount(ctr, now) = Cardinality(CountedNow)
       /\ \A i \in CountedNow : AgeMs(i) < cfg.windowSeconds * MsPerSecond

(* C14 witness: a window its bucket size does not divide counts an event   *)
(* older than the window                                                   *)
C14_Witness ==
  /\ cfg.kind = "sliding"
  /\ cfg.windowSeconds % cfg.bucketSeconds # 0
  /\ \E i \in CountedNow : AgeMs(i) > cfg.windowSeconds * MsPerSecond

(* Every increment since the construction or the last reset was made at    *)
(* one instant                                                             *)
AllAtOnce == events # <<>> /\ \A i \in DOMAIN events : events[i].at = events[1].at

(* canIncrement(L) after L increments; for the tracker, canHandle() after  *)
(* as many requests as its minute limit                                    *)
RoundTripApplies == cfg.kind \in {"sliding", "fixed"} \/ Len(events) = cfg.limit

CanTakeMore ==
  IF cfg.kind = "tracker" THEN TrackerCanHandle(ctr, now).val
  ELSE WCanIncrement(ctr, Len(events), now)

WindowMs(c) ==
  IF c.kind = "tracker" THEN MinuteWindowSeconds * MsPerSecond
  ELSE c.windowSeconds * MsPerSecond

(* C15: after exactly L increments at one instant               *)
(* canIncrement(L) is false, and once W seconds have elapsed with no       *)
(* further increment it is true again; a RateTracker with {minute: L}      *)
(* reports canHandle() false after L requests and true again 60 s later.   *)
C15_RoundTripAfterWindow ==
  (cfg.kind \in {"sliding", "fixed", "tracker"} /\ AllAtOnce /\ RoundTripApplies) =>
    /\ now = events[1].at => ~CanTakeMore
    /\ now - events[1].at >= WindowMs(cfg) => CanTakeMore

(* C16: what an operation on a fixed counter of 86400 s finds or sets as   *)
(* windowStart is the most recent local midnight at or before now.         *)
C16_WindowStartIsLastMidnight ==
  (cfg.kind = "fixed" /\ ctr.windowDuration = DayMs) =>
    resetIfExpired(ctr, now).windowStart = LastMidnight(now)

(* C17: getCount() of a fixed counter equals the number of increments made *)
(* since the start of its current window.                                  *)
C17_CountIsIncrementsSinceWindowStart ==
  cfg.kind = "fixed" =>
    FWGetCount(ctr, now)
      = Cardinality({i \in DOMAIN events :
                       events[i].at >= resetIfExpired(ctr, now).windowStart})

ResetOf(o, t) == IF cfg.kind = "tracker" THEN TrackerReset(o, t) ELSE WReset(o, t)

CountsOf(o, t) ==
  IF cfg.kind = "tracker" THEN {WGetCount(o.windows[per], t) : per \in Owned(o)}
  ELSE {WGetCount(o, t)}

C18_Step ==
  (now' = now /\ seen'.op = "reset") =>
    /\ CountsOf(ctr', now') = {0}
    /\ IF cfg.kind = "tracker" THEN TrackerCanHandle(ctr', now').val
       ELSE \A limit \in 1..MaxIncrements : WCanIncrement(ctr', limit, now')
    /\ ResetOf(ctr', now') = ctr'
    /\ events' = <<>>

(* C18: reset() on a rolling counter, a fixed counter or a RateTracker     *)
(* leaves every count at 0 and canIncrement(L) / canHandle() true for the  *)
(* positive limits; a second reset() changes nothing.                      *)
C18_ResetClearsAndIsIdempotent == [][C18_Step]_vars

(* C18 witness: a rolling counter has been reset after the clock advanced *)
C18_Witness ==
  /\ seen.op = "reset"
  /\ events = <<>>
  /\ nticks > 0
  /\ cfg.kind = "sliding"
  /\ ctr.lastRotation = now
  /\ now > StartHour * 3600 * MsPerSecond

----------------------------------------------------------------------------
(* Properties of the strategies *)

Strategies == {"cost", "performance", "roundrobin", "balanced"}

(* The lists select is handed: the providers of the pool, or all but one   *)
(* of them (the fallback after a rate-limit error)                         *)
WithoutProvider(x) == SelectSeq(AllProviders, LAMBDA p : p # x)

GivenLists == {AllProviders} \cup {WithoutProvider(x) : x \in Providers}

SomeCanHandle(list, m) ==
  \E i \in DOMAIN list : ProviderCanHandle(list[i], m, trackers, now).val

SelectMeetsContract(kind, list, m, li) ==
  LET r == select(kind, list, m, trackers, li, now)
  IN IF SomeCanHandle(list, m)
     THEN /\ r.ok
          /\ r.provider \in Range(list)
          /\ ProviderCanHandle(r.provider, m, r.trs, now).val
     ELSE ~r.ok

(* C19: for each of the four strategies, select(providers, model) fails    *)
(* with NoProvidersAvailable: <model> exactly when no provider of the      *)
(* given list can handle the model, and otherwise returns a member of the  *)
(* list for which canHandle(model) is true at that moment.                 *)
C19_SelectContract ==
  /\ \A kind \in Strategies, list \in GivenLists, m \in Models :
       \A li \in (IF kind = "roundrobin" THEN 0..(Len(cfg.providers) - 1) ELSE {lastIndex}) :
         SelectMeetsContract(kind, list, m, li)
  /\ (last.kind = "pool" /\ last.primaryErr = NoErr /\ ~last.ok /\ last.attempts = <<>>) =>
       /\ last.err = Err("NoProvidersAvailable", 0, last.model, 0)
       /\ last.ableAtStart = {}

(* C19 witness: the first select of a pool call found no candidate among   *)
(* providers of which one has no quota entry for the model                 *)
C19_Witness ==
  /\ last.kind = "pool"
  /\ ~last.ok
  /\ last.primaryErr = NoErr
  /\ last.err.kind = "NoProvidersAvailable"
  /\ \E p \in Providers : ~HasConfig(p, last.model)

(* The candidates of a select and the trackers after the filter *)
Candidates(list, m) == FilterCanHandle(list, m, trackers, now)

CostChoiceIsCheapest(f, q, m) ==
  /\ (\E i \in DOMAIN f.avail : Tier(f.avail[i]) = "free") => Tier(q[1]) = "free"
  /\ \A i \in DOMAIN f.avail :
       Tier(f.avail[i]) = Tier(q[1]) => UtilDiff(q[1], f.avail[i], m, f.trs, now) <= 0

(* C20: CostOptimizedStrategy.select returns a free-tier provider whenever *)
(* a free-tier provider can handle the model, whatever the tiers of the    *)
(* other candidates, and the provider it returns has the lowest            *)
(* utilization among the candidates of its own tier.                       *)
C20_CostChoice ==
  \A list \in GivenLists, m \in Models :
    \A f \in {Candidates(list, m)} :
      f.avail # <<>> =>
        \A q \in SortOutcomes("cost", f.avail, m, f.trs, now) :
          CostChoiceIsCheapest(f, q, m)

(* The sorted list of the model is one of the outcomes of the sort *)
SortIsAnOutcome ==
  \A kind \in Strategies \ {"roundrobin"}, list \in GivenLists, m \in Models :
    \A f \in {Candidates(list, m)} :
      f.avail # <<>> => Sort(kind, f.avail, m, f.trs, now) \in SortOutcomes(kind, f.avail, m, f.trs, now)

LowestOfItsTier(f, p, m) ==
  \A i \in DOMAIN f.avail :
    Tier(f.avail[i]) = Tier(p) => UtilDiff(p, f.avail[i], m, f.trs, now) <= 0

PerformanceChoiceIsBest(list, m) ==
  \A f \in {Candidates(list, m)} :
    f.avail # <<>> =>
      \A r \in {selectFrom("performance", list, f, m, lastIndex, now)} :
        /\ r.ok
        /\ (\E i \in DOMAIN f.avail : Tier(f.avail[i]) = "paid") <=> Tier(r.provider) = "paid"
        /\ LowestOfItsTier(f, r.provider, m)

(* C21: PerformanceOptimizedStrategy.select returns a paid-tier provider   *)
(* whenever a paid-tier provider can handle the model, a free one only     *)
(* when no paid provider can, and the provider it returns has the lowest   *)
(* utilization among the candidates of its own tier.                       *)
C21_PerformanceChoice ==
  /\ \A list \in GivenLists, m \in Models : PerformanceChoiceIsBest(list, m)
  /\ (cfg.strategy = "performance" /\ last.kind = "pool" /\ Len(last.attempts) = 1
        /\ \E p \in last.ableAtStart : Tier(p) = "paid") =>
       Tier(last.attempts[1]) = "paid"

(* C21 witness: the pool sent a call to one of two free providers that     *)
(* could handle the model, the other one having served before, while no    *)
(* paid provider could handle it                                           *)
C21_Witness ==
  /\ cfg.strategy = "performance"
  /\ last.kind = "pool"
  /\ last.ok
  /\ Tier(last.by) = "free"
  /\ \A p \in last.ableAtStart : Tier(p) = "free"
  /\ Cardinality(last.ableAtStart) = 2
  /\ \E p \in last.ableAtStart \ {last.by} :
       ObsCount(trackers, p, last.model, "day", now) > 0

(* The providers of the pool can all handle every model *)
AllAble == \A p \in Providers, m \in Models : ProviderCanHandle(p, m, trackers, now).val

(* Index (from 0) of the provider the k-th select of a round robin over N  *)
(* providers returns                                                       *)
CycleIndex(k, N) == k % N

C22_State ==
  (cfg.strategy = "roundrobin" /\ ~upstreamFailed /\ AllAble) =>
    /\ lastIndex = CycleIndex(ncalls, Len(cfg.providers))
    /\ \A c \in InFlight :
         calls[c].attempts = <<AllProviders[CycleIndex(calls[c].id, Len(cfg.providers)) + 1]>>
    /\ last.kind = "pool" =>
         /\ last.ok
         /\ last.by = AllProviders[CycleIndex(last.id, Len(cfg.providers)) + 1]

C22_Step ==
  (cfg.strategy = "roundrobin" /\ ~upstreamFailed /\ AllAble /\ ncalls' = ncalls + 1) =>
    \E c \in Slots :
      /\ calls[c].pc = "idle"
      /\ calls'[c].pc = "awaitPrimary"
      /\ calls'[c].provider = AllProviders[CycleIndex(ncalls + 1, Len(cfg.providers)) + 1]

(* C22: RoundRobinStrategy over N providers that can always handle the     *)
(* model returns on its k-th call the provider at index k mod N, so N      *)
(* consecutive calls select each provider once; for N = 3 the indices are  *)
(* 1, 2, 0, 1, ...                                                         *)
C22_RoundRobinCycle == [](C22_State) /\ [][C22_Step]_vars

(* C22 witness: over three providers the fourth call, after 1, 2, 0, was   *)
(* served by the provider at index 1 again                                 *)
C22_Witness ==
  /\ cfg.strategy = "roundrobin"
  /\ Len(cfg.providers) = 3
  /\ ~upstreamFailed
  /\ AllAble
  /\ last.kind = "pool"
  /\ last.ok
  /\ last.id = 4
  /\ last.by = 2

LeastUtilized(list, m) ==
  \A f \in {Candidates(list, m)} :
    f.avail # <<>> =>
      \A r \in {selectFrom("balanced", list, f, m, lastIndex, now)} :
        /\ r.ok
        /\ \A i \in DOMAIN f.avail : UtilDiff(r.provider, f.avail[i], m, f.trs, now) <= 0

(* C23: LoadBalancedStrategy.select returns a provider whose utilization   *)
(* for the model is minimal among all providers that can handle the model, *)
(* regardless of tier.                                                     *)
C23_LeastUtilizedChosen ==
  \A list \in GivenLists, m \in Models : LeastUtilized(list, m)

(* C23 witness: both providers, of different tiers, could handle the model *)
(* and the pool's call went to the second of the list, the less utilized   *)
C23_Witness ==
  /\ cfg.strategy = "balanced"
  /\ last.kind = "pool"
  /\ last.ok
  /\ Cardinality(last.ableAtStart) = 2
  /\ last.by = 2
  /\ Tier(1) # Tier(2)

----------------------------------------------------------------------------
(* Properties of the provider's accounting *)

(* getUtilization(model) of provider p as a fraction, the tracker created  *)
(* on first use                                                            *)
UtilizationOf(p, m) == getUtilization(p, m, getTracker(p, m, trackers, now).trs, now)

(* C24: getUtilization(model) is a value in [0, 1] in every reachable      *)
(* state of a configured model, after any sequence of successful, locally  *)
(* rejected and 429-failed execute calls.                                  *)
C24_UtilizationInUnitInterval ==
  \A p \in Providers, m \in Models :
    HasConfig(p, m) =>
      \A u \in {UtilizationOf(p, m)} :
        /\ u.den > 0
        /\ 0 <= u.num
        /\ u.num <= u.den

(* C29: under strictly sequential use of execute, every owned period's     *)
(* count is at most its limit in every reachable state, including after    *)
(* executes that fail with an upstream 429.                                *)
C29_CountsWithinLimits ==
  cfg.inFlight = 1 =>
    \A p \in Providers, m \in Models :
      HasConfig(p, m) =>
        \A i \in DOMAIN Periods :
          HasLimit(ConfiguredLimits(p, m), Periods[i]) =>
            ObsCount(trackers, p, m, Periods[i], now) <= ConfiguredLimits(p, m)[Periods[i]]

Configured(m) == {p \in Providers : HasConfig(p, m)}

(* C25: a provider with no quota entry for (model, its tier) reports       *)
(* canHandle(model) = false and gets no tracker, the strategies never see  *)
(* it among their candidates, and ProviderPool.execute never fails with    *)
(* NoConfigForModel: when every provider lacks the entry it fails with     *)
(* NoProvidersAvailable.                                                   *)
C25_UnconfiguredIsFilteredOut ==
  /\ \A p \in Providers, m \in Models :
       ~HasConfig(p, m) =>
         /\ ProviderCanHandle(p, m, trackers, now) = [val |-> FALSE, trs |-> trackers]
         /\ m \notin DOMAIN trackers[p]
  /\ \A list \in GivenLists, m \in Models :
       \A f \in {Candidates(list, m)} :
         /\ Range(f.avail) \subseteq Configured(m)
         /\ \A r \in {selectFrom(cfg.strategy, list, f, m, lastIndex, now)} :
              r.ok => r.provider \in Configured(m)
  /\ \A c \in InFlight :
       calls[c].kind = "pool" => Range(calls[c].attempts) \subseteq Configured(calls[c].model)
  /\ last.kind = "pool" =>
       /\ last.err.kind # "NoConfigForModel"
       /\ Range(last.attempts) \subseteq Configured(last.model)
       /\ Configured(last.model) = {} =>
            (~last.ok /\ last.err = Err("NoProvidersAvailable", 0, last.model, 0))

(* C25 witness: no provider has a quota entry for the model and the call   *)
(* of the pool failed with NoProvidersAvailable                            *)
C25_Witness ==
  /\ last.kind = "pool"
  /\ Configured(last.model) = {}
  /\ ~last.ok
  /\ last.err.kind = "NoProvidersAvailable"

(* Call c ends successfully in this step *)
Succeeds(c) ==
  /\ calls[c].pc # "idle"
  /\ calls'[c].pc = "idle"
  /\ last'.ok
  /\ last'.id = calls[c].id

RecordedOnceAndOnlyThere(p, m) ==
  /\ m \in DOMAIN trackers[p]
  /\ DOMAIN trackers'[p] = DOMAIN trackers[p]
  /\ Owned(trackers'[p][m]) = Owned(trackers[p][m])
  /\ \A per \in Owned(trackers[p][m]) :
       ObsCount(trackers', p, m, per, now') = ObsCount(trackers, p, m, per, now) + 1
  /\ \A m2 \in DOMAIN trackers[p] \ {m} : trackers'[p][m2] = trackers[p][m2]
  /\ \A q \in Providers \ {p} : trackers'[q] = trackers[q]

C26_Step == \A c \in Slots : Succeeds(c) => RecordedOnceAndOnlyThere(calls[c].provider, calls[c].model)

(* C26: each successful RateLimitedProvider.execute increments every owned *)
(* period counter of that provider's tracker for the requested model by    *)
(* exactly one, and changes neither a tracker of another model on the same *)
(* provider nor any tracker of another provider.                           *)
C26_SuccessRecordsOnce == [][C26_Step]_vars

(* C26 witness: a provider served one model twice and the other once, and  *)
(* the other provider has a tracker as well                                *)
C26_Witness ==
  /\ last.kind = "direct"
  /\ last.ok
  /\ last.by = 1
  /\ DOMAIN trackers[1] = TwoModels
  /\ ObsCount(trackers, 1, "modelA", "day", now) = 2
  /\ ObsCount(trackers, 1, "modelB", "day", now) = 1
  /\ "modelA" \in DOMAIN trackers[2]

----------------------------------------------------------------------------
(* The router.  What the caller of routeAPICall gets, as a function of the *)
(* outcome of the Cerebras side and of the OpenRouter call it may make.    *)

OpenRouterFailed == Err("OpenRouterError", 0, "", 0)

StartsWithNoProvidersAvailable(e) == e.kind = "NoProvidersAvailable"

Routed(ok, via, err) == [ok |-> ok, via |-> via, err |-> err]

callOpenRouter(orOk) ==
  IF orOk THEN Routed(TRUE, "openrouter", NoErr)
  ELSE Routed(FALSE, "openrouter", OpenRouterFailed)

(* routeAPICall over a provider pool: poolOk, poolErr is how pool.execute  *)
(* ended                                                                   *)
routeAPICall(poolOk, poolErr, openRouterApiKey, orOk) ==
  IF poolOk THEN Routed(TRUE, "cerebras", NoErr)
  ELSE IF openRouterApiKey /\ StartsWithNoProvidersAvailable(poolErr)
       THEN callOpenRouter(orOk)
       ELSE Routed(FALSE, "cerebras", poolErr)

(* originalRouteAPICall with a Cerebras key: the primary is Cerebras, the  *)
(* fallback OpenRouter if its key is set                                   *)
originalRouteAPICall(cerebrasOk, cerebrasErr, openRouterApiKey, orOk) ==
  IF cerebrasOk THEN Routed(TRUE, "cerebras", NoErr)
  ELSE IF openRouterApiKey
       THEN IF orOk THEN callOpenRouter(orOk)
            ELSE Routed(FALSE, "openrouter", Err("BothProvidersFailed", 0, "", 0))
       ELSE Routed(FALSE, "cerebras", cerebrasErr)

FellBack(r, orOk) == r.via = "openrouter" /\ r.ok = orOk

(* C27: with an OpenRouter key configured, routeAPICall falls back to      *)
(* OpenRouter whenever the Cerebras call fails for any reason (with a      *)
(* pool: whenever ProviderPool.execute fails), and the caller sees an      *)
(* error only if the OpenRouter call fails as well.                        *)
C27_OpenRouterOnAnyFailure ==
  /\ \A k \in UpstreamKinds, orOk \in BOOLEAN :
       FellBack(originalRouteAPICall(FALSE, Err(k, 0, "", 0), TRUE, orOk), orOk)
  /\ (last.kind = "pool" /\ ~last.ok) =>
       \A orOk \in BOOLEAN : FellBack(routeAPICall(FALSE, last.err, TRUE, orOk), orOk)

LocallyRejected(e) == StartsWithRateLimitExceeded(e)

(* C28: a provider returned by the strategy inside ProviderPool.execute is *)
(* always admitted by that provider's own re-check, for the primary and    *)
(* for the fallback selection: no pool call fails, or fails over, with a   *)
(* locally raised RateLimitExceeded, also with several calls in flight.    *)
C28_SelectedIsAdmitted ==
  /\ \A c \in InFlight :
       calls[c].kind = "pool" =>
         /\ ~LocallyRejected(calls[c].primaryErr)
         /\ calls[c].attempts # <<>>
  /\ last.kind = "pool" =>
       /\ ~LocallyRejected(last.err)
       /\ ~LocallyRejected(last.primaryErr)

(* C28 witness: two pool calls are in flight at once, one of them on the   *)
(* fallback its failover selected, and every window of the provider the    *)
(* other one waits for is full                                             *)
C28_Witness ==
  /\ cfg.inFlight > 1
  /\ Cardinality(InFlight) = 2
  /\ \E c \in InFlight : calls[c].kind = "pool" /\ calls[c].pc = "awaitFallback"
  /\ \E c \in InFlight :
       /\ calls[c].pc = "awaitPrimary"
       /\ ~ProviderCanHandle(calls[c].provider, calls[c].model, trackers, now).val

(* The raw executor of call c has just failed with an error whose message  *)
(* has no '429' in it, and the call has ended with the step                *)
FailedWithout429(c) ==
  /\ calls[c].pc = "awaitDirect"
  /\ calls'[c].pc = "idle"
  /\ last'.id = calls[c].id
  /\ ~last'.ok
  /\ last'.rawErrs # <<>>
  /\ ~Includes429(last'.rawErrs[Len(last'.rawErrs)])

C30_Step ==
  \A c \in Slots :
    FailedWithout429(c) =>
      /\ trackers'[calls[c].provider] = trackers[calls[c].provider]
      /\ CountsUnchanged

(* C30: a raw-executor failure whose message does not contain '429' leaves *)
(* every counter of the provider's tracker unchanged: a failed request     *)
(* consumes no quota.                                                      *)
C30_FailureConsumesNoQuota == [][C30_Step]_vars

(* C30 witness: a direct call has failed upstream without '429' on a       *)
(* provider whose tracker has a served request in its windows and can      *)
(* still take another one                                                  *)
C30_Witness ==
  /\ last.kind = "direct"
  /\ ~last.ok
  /\ last.rawErrs # <<>>
  /\ ~Includes429(last.rawErrs[Len(last.rawErrs)])
  /\ last.model \in DOMAIN trackers[last.target]
  /\ \E per \in Owned(trackers[last.target][last.model]) :
       Used(trackers[last.target][last.model], per, now) >= 1
  /\ ProviderCanHandle(last.target, last.model, trackers, now).val

(* C31: with several execute calls in flight through CerebrasApiClient,    *)
(* every upstream request is sent with the API key and the model of the    *)
(* provider selected for it, and once all calls have finished              *)
(* config.cerebrasApiKey and config.cerebrasModel hold the values they had *)
(* before the calls.                                                       *)
C31_OwnKeyAndConfigRestored ==
  /\ \A c \in Slots :
       client.runs[c].pc = "sent" =>
         /\ client.runs[c].sentKey = client.runs[c].apiKey
         /\ client.runs[c].sentModel = client.runs[c].model
  /\ (client.started > 0 /\ \A c \in Slots : client.runs[c].pc = "idle") =>
       client.config = client.initial

(* The increments made less than ms milliseconds before now *)
YoungerThan(ms) == {i \in DOMAIN events : AgeMs(i) < ms}

(* The increments on which the count and the last W seconds disagree *)
Miscounted ==
  (CountedNow \ YoungerThan(cfg.windowSeconds * MsPerSecond))
    \cup (YoungerThan(cfg.windowSeconds * MsPerSecond) \ CountedNow)

(* C32: the count of a rolling counter of window W and bucket size b       *)
(* includes every increment made less than W - b seconds before the query  *)
(* (no reset in between), and the increments on which it differs from the  *)
(* events of the last W seconds lie within one bucket width of each other. *)
C32_AccurateWithinOneBucket ==
  cfg.kind = "sliding" =>
    /\ SWGetCount(ctr, now) = Cardinality(CountedNow)
    /\ YoungerThan((cfg.windowSeconds - cfg.bucketSeconds) * MsPerSecond) \subseteq CountedNow
    /\ \A i, j \in Miscounted : AgeMs(i) - AgeMs(j) < cfg.bucketSeconds * MsPerSecond

(* C32 witness: a query has counted one increment and has left out another *)
(* one that was made within the last W seconds                             *)
C32_Witness ==
  /\ cfg.kind = "sliding"
  /\ seen.op = "getCount"
  /\ seen.val > 0
  /\ \E i \in YoungerThan(cfg.windowSeconds * MsPerSecond) : i \notin CountedNow

(* The owned period with number n is at or above its limit *)
Exhausted(n) ==
  \E per \in Owned(ctr) :
    /\ PeriodNumber(per) = n
    /\ Used(ctr, per, now) >= ctr.limits[per]

(* C33: whenever execute fails with RateLimitExceeded, the period named in *)
(* the message is an owned period of the tracker whose count is at or      *)
(* above its limit; it is never null or a period that still has capacity.  *)
C33_NamedPeriodIsExhausted ==
  (seen.op = "RateLimitExceeded" /\ seen.at = now) => Exhausted(seen.val)

BucketMs == cfg.bucketSeconds * MsPerSecond

(* An operation of the rolling counter has run: every operation starts     *)
(* with rotate() or is reset(), and none of them moves the clock           *)
C34_Step ==
  (cfg.kind = "sliding" /\ now' = now) =>
    /\ 0 <= now - ctr'.lastRotation
    /\ now - ctr'.lastRotation < BucketMs
    /\ seen'.op = "reset" => ctr'.lastRotation = now
    /\ seen'.op # "reset" =>
         /\ ctr'.lastRotation >= ctr.lastRotation
         /\ (ctr'.lastRotation - ctr.lastRotation) % BucketMs = 0

C34_State ==
  cfg.kind = "sliding" =>
    /\ ctr.currentIndex \in 0..(ctr.bucketCount - 1)
    /\ ctr.lastRotation <= now

(* C34: every rotation of a rolling counter advances lastRotation by a     *)
(* whole number of bucket widths and leaves 0 <= now - lastRotation <      *)
(* bucketSeconds, so the bucket boundaries stay aligned to the creation or *)
(* last reset time however irregularly the counter is called, and the      *)
(* circular index stays within [0, bucketCount).                           *)
C34_RotationKeepsAlignment == [](C34_State) /\ [][C34_Step]_vars

(* C34 witness: a query that came part-way through a bucket has rotated    *)
(* the counter, and lastRotation is behind the clock                       *)
C34_Witness ==
  /\ cfg.kind = "sliding"
  /\ seen.op = "getCount"
  /\ ctr.lastRotation > StartHour * 3600 * MsPerSecond
  /\ ctr.lastRotation < now
  /\ now - ctr.lastRotation < BucketMs
  /\ ctr.currentIndex # 0

(* b is an owned period and no owned period has a higher used/limit *)
HighestRatio(b) ==
  /\ b \in Owned(ctr)
  /\ \A per \in Owned(ctr) :
       Used(ctr, per, now) * ctr.limits[b] <= Used(ctr, b, now) * ctr.limits[per]

SomeUsed == \E per \in Owned(ctr) : Used(ctr, per, now) > 0

(* C35 as claimed: in every state of a RateTracker, getBottleneck()        *)
(* returns the name of an owned quota period whose used/limit ratio is the *)
(* highest among the owned periods.                                        *)
C35_BottleneckIsHighest == HighestRatio(getBottleneck(ctr, now))

(* C35 as amended: in every state of a RateTracker in which some owned     *)
(* period has a count above zero, getBottleneck() returns the name of an   *)
(* owned period whose used/limit ratio is the highest among the owned      *)
(* periods; when no owned period has a count, it returns null.             *)
C35_BottleneckIsHighestWhenUsed ==
  IF SomeUsed THEN HighestRatio(getBottleneck(ctr, now))
  ELSE getBottleneck(ctr, now) = "null"

(* C35 witness: getBottleneck() has returned the second period of a        *)
(* tracker whose first period holds a request at a lower ratio             *)
C35_Witness ==
  /\ seen.op = "getBottleneck"
  /\ seen.val = PeriodNumber(getBottleneck(ctr, now))
  /\ seen.val > 1
  /\ Used(ctr, OwnedSeq(ctr)[1], now) > 0

(* The periods present in the limit set of the tracker *)
Present == DOMAIN ctr.limits \cap Range(Periods)

(* C36: a RateTracker owns exactly one counter for each of the periods     *)
(* minute, hour and day that is present in its limit set, whatever the     *)
(* value of the limit, and none for an absent period; canHandle() enforces *)
(* the limit of every present period.                                      *)
C36_OneCounterPerPresentPeriod ==
  /\ Owned(ctr) = Present
  /\ TrackerCanHandle(ctr, now).val =>
       \A per \in Present :
         /\ per \in Owned(ctr)
         /\ Used(ctr, per, now) < ctr.limits[per]

====
